---- MODULE Spec2Model ----
(***************************************************************************)
(* Model of the procedural fracture tools of lore_engine_tools/fracture.py *)
(* (point sampling, Lloyd relaxation, fragmentation, crack painting and    *)
(* the three operators that drive them).                                   *)
(*                                                                         *)
(* Numbers.  Lengths are fixed-point integers, 300 units per metre, so a   *)
(* volume of 1 m^3 is 27000000 cubic units and 0.0001 m^3 is 2700; float   *)
(* division becomes \div.  The pattern randomness is kept in tenths        *)
(* (0..10 for 0.0..1.0).  Trigonometric values are kept in thousandths.    *)
(*                                                                         *)
(* Random numbers.  Python's module-global generator is one variable, rng. *)
(* random.seed(s) sets it from s alone; every random.random() advances it  *)
(* by one step and returns a value k/8, k in 0..7, that depends only on    *)
(* the new state.  random.uniform(a, b) is a + (b - a) * random().         *)
(***************************************************************************)
EXTENDS Integers, Sequences, FiniteSets, TLC

VARIABLES
  rng,         \* state of Python's module-global random generator
  sArgs,       \* sampler: the arguments every call of this run is made with
  sOuts,       \* sampler: the point lists returned so far, in call order
  sLastPre,    \* sampler: generator state at the latest call (-1: no call yet)
  sPerturbed,  \* sampler: some call started from another state than its predecessor
  assigned,    \* the values last assigned to the object's lore_fracture properties
  props,       \* obj.lore_fracture: the values the properties hold
  objBounds,   \* world-space bounding box of the object
  objHidden,   \* the object is hidden (hide_set(True), hide_render)
  addonInstalled, \* the Cell Fracture add-on can be enabled in this Blender
  addonEnabled,   \* 'object_fracture_cell' in bpy.context.preferences.addons
  pointClouds, \* number of "FracturePoints" objects in bpy.data
  req,         \* what the latest operator or function call did and returned
  bPc,         \* batch operator: "idle", or "loop" while execute runs its loop
  bCount,      \* batch operator: self.variation_count
  bI,          \* batch operator: the loop variable i
  bRuns,       \* batch operator: what each finished pass of the loop did
  cPc,         \* add_procedural_cracks: "idle", "loop" (for crack_idx) or "walk" (while)
  cMesh,       \* add_procedural_cracks: the bmesh after subdivide_edges
  cCount,      \* add_procedural_cracks: crack_count
  cDepth,      \* add_procedural_cracks: crack_depth, in millimetres
  cIdx,        \* add_procedural_cracks: crack_idx
  cPath,       \* add_procedural_cracks: crack_path, a list of vertex indices
  cLength,     \* add_procedural_cracks: crack_length
  cTravelled,  \* add_procedural_cracks: traveled_distance
  cDisp,       \* per vertex: total displacement against its normal in this call
  cPaths,      \* the crack paths of this call, in order
  iArgs,       \* invocations 1 and 2: the sampler arguments of each
  iPc,         \* invocations 1 and 2: "start", "sampled" or "relaxed"
  iPoints,     \* invocations 1 and 2: the points each one sampled
  iRelaxed,    \* invocations 1 and 2: the relaxed points of each
  cSeed,       \* add_procedural_cracks: seed
  objCracked,  \* the object's mesh was rewritten by add_procedural_cracks
  lInput,      \* lloyd_relaxation: the points it is called with
  lIterations, \* lloyd_relaxation: iterations of the latest call (-1: no call yet)
  lPre,        \* lloyd_relaxation: generator state at the latest call
  lOut,        \* lloyd_relaxation: the points the latest call returned
  lTrace       \* lloyd_relaxation: per iteration of the latest call, the samples drawn

samplerVars == <<sArgs, sOuts, sLastPre, sPerturbed>>

objectVars == <<assigned, props, objBounds, objHidden>>

hostVars == <<addonInstalled, addonEnabled, pointClouds>>

batchVars == <<bPc, bCount, bI, bRuns>>

crackVars == <<cPc, cMesh, cCount, cSeed, cDepth, cIdx, cPath, cLength, cTravelled, cDisp, cPaths>>

invocationVars == <<iArgs, iPc, iPoints, iRelaxed>>

relaxVars == <<lInput, lIterations, lPre, lOut, lTrace>>

vars == <<rng, samplerVars, objectVars, hostVars, req, batchVars, crackVars, invocationVars,
          objCracked, relaxVars>>

\* ------------------------------------------------------------------------
\* Bounds of the model
\* ------------------------------------------------------------------------
\* largest point count sampled (voronoi_cell_count allows 3..500)
MaxCount == 5

\* calls of the sampler in one run of the sampler specification
MaxCalls == 2

\* pieces the cell-fracture step produces at most
MaxPieces == 2

\* "FracturePoints" objects that may be left behind
MaxClouds == 2

\* largest variation_count of a batch (the property allows 1..20)
MaxVariations == 2

\* largest crack_count of a call of add_procedural_cracks (default 10)
MaxCracks == 2

\* largest iterations argument of a direct call of lloyd_relaxation (default 3)
MaxIterations == 2

\* samples drawn per point in one relaxation iteration (samples = 100 in the
\* code; the loop is the same, run over fewer samples)
samples == 4

\* ------------------------------------------------------------------------
\* Inputs the model is run with
\* ------------------------------------------------------------------------
\* world-space bounds: a 2 m cube, a box whose longest side is X, and a box
\* whose longest side is Z
BoundsSet ==
  { [min |-> <<0, 0, 0>>, max |-> <<600, 600, 600>>],
    [min |-> <<-300, 0, 0>>, max |-> <<900, 300, 600>>],
    [min |-> <<0, 0, 0>>, max |-> <<300, 300, 900>>] }

\* cell counts the sampler is called with: the small ones, and a perfect cube
CountSet == (3 .. MaxCount) \cup {8}

SeedSet == {100, 99500}

RandomnessSet == {0, 10}

\* ------------------------------------------------------------------------
\* Arithmetic helpers
\* ------------------------------------------------------------------------
Abs(x) == IF x < 0 THEN -x ELSE x

Min2(a, b) == IF a <= b THEN a ELSE b

Max2(a, b) == IF a >= b THEN a ELSE b

RECURSIVE SqrtSearch(_, _, _)
SqrtSearch(n, lo, hi) ==
  IF lo >= hi THEN lo
  ELSE LET mid == (lo + hi + 1) \div 2
       IN  IF mid * mid <= n THEN SqrtSearch(n, mid, hi)
           ELSE SqrtSearch(n, lo, mid - 1)

\* floor(sqrt(n)) for 0 <= n < 2^22
ISqrt(n) == SqrtSearch(n, 0, 2047)

\* mathutils.Vector operations on <<x, y, z>>
VAdd(a, b) == <<a[1] + b[1], a[2] + b[2], a[3] + b[3]>>

VSub(a, b) == <<a[1] - b[1], a[2] - b[2], a[3] - b[3]>>

VLength(a) == ISqrt(a[1] * a[1] + a[2] * a[2] + a[3] * a[3])

VLengthSq(a) == a[1] * a[1] + a[2] * a[2] + a[3] * a[3]

\* (bounds_min + bounds_max) * 0.5
Center(bmin, bmax) ==
  <<(bmin[1] + bmax[1]) \div 2, (bmin[2] + bmax[2]) \div 2, (bmin[3] + bmax[3]) \div 2>>

\* ------------------------------------------------------------------------
\* The module-global random generator
\* ------------------------------------------------------------------------
RngStates == 0 .. 15

\* random.seed(seed): the new state depends on the seed alone.
SeedRngKeep(g, seed) == g

SeedRng(g, seed) == seed % 16

\* the state after n random.random() calls
RngAdvance(g, n) == (g + 7 * n) % 16

\* one random.random() call: the state after it
RngStep(g) == RngAdvance(g, 1)

\* the value (in eighths) returned by the k-th random.random() after state g
RandomEighths(g, k) == RngAdvance(g, k) \div 2

\* the k-th random.uniform(a, b) after state g: a + (b - a) * random()
Uniform(g, k, a, b) == a + ((b - a) * RandomEighths(g, k)) \div 8

\* cos and sin of 2*pi*k/8, and of pi*k/8, in thousandths
CosTwoPi(k) == <<1000, 707, 0, -707, -1000, -707, 0, 707>>[k + 1]

SinTwoPi(k) == <<0, 707, 1000, 707, 0, -707, -1000, -707>>[k + 1]

CosPi(k) == <<1000, 924, 707, 383, 0, -383, -707, -924>>[k + 1]

SinPi(k) == <<0, 383, 707, 924, 1000, 924, 707, 383>>[k + 1]

\* ------------------------------------------------------------------------
\* generate_voronoi_points
\* ------------------------------------------------------------------------
Patterns == {"RANDOM", "GRID", "RADIAL", "SPLINTER"}

\* int(count ** (1/3)) in double arithmetic: the floor of the cube root,
\* except that 64, 125, 216 and 343 evaluate just below their root.
IntCbrt(count) ==
  LET r == CHOOSE k \in 0 .. 8 : k * k * k <= count /\ (k + 1) * (k + 1) * (k + 1) > count
  IN  IF count \in {64, 125, 216, 343} THEN r - 1 ELSE r

\* value * randomness, randomness in tenths
TimesRandomness(v, randomness) == (v * randomness) \div 10

\* random.uniform(-a, a) * randomness, the k-th draw after g
Jitter(g, k, a, randomness) == TimesRandomness(Uniform(g, k, -a, a), randomness)

\* a Python list built by a loop: its elements are values, each computed once
AsList(f) == SubSeq(f, 1, Len(f))

\* Every pass of a sampling loop draws the same number of values, so pass i
\* (from 0) of a loop drawing d values per pass starts from the generator
\* state reached d * i draws after random.seed, and the loop leaves the
\* generator d * passes draws after it.

\* RANDOM: pass i of the loop
RandomPointAroundMin(g, bmin, bmax) ==
  <<Uniform(g, 1, bmin[1] - (bmax[1] - bmin[1]), bmax[1]),
    Uniform(g, 2, bmin[2] - (bmax[2] - bmin[2]), bmax[2]),
    Uniform(g, 3, bmin[3] - (bmax[3] - bmin[3]), bmax[3])>>

RandomPoint(g, bmin, bmax) ==
  <<Uniform(g, 1, bmin[1], bmax[1]),
    Uniform(g, 2, bmin[2], bmax[2]),
    Uniform(g, 3, bmin[3], bmax[3])>>

RandomLoop(g0, count, bmin, bmax) ==
  [rng    |-> RngAdvance(g0, 3 * count),
   points |-> AsList([i \in 1 .. count |->
                        RandomPoint(RngAdvance(g0, 3 * (i - 1)), bmin, bmax)])]

GridCellsPerAxis(count) == IntCbrt(count) + 1

\* GRID: the point made at lattice site n = (x * cells + y) * cells + z
GridPointWideJitter(g, n, cells, bmin, bmax, randomness) ==
  LET x  == n \div (cells * cells)
      y  == (n \div cells) % cells
      z  == n % cells
      sx == (bmax[1] - bmin[1]) \div cells
      sy == (bmax[2] - bmin[2]) \div cells
      sz == (bmax[3] - bmin[3]) \div cells
      base == <<bmin[1] + x * sx + sx \div 2,
                bmin[2] + y * sy + sy \div 2,
                bmin[3] + z * sz + sz \div 2>>
      offset == <<Jitter(g, 1, (sx * 6) \div 10, randomness),
                  Jitter(g, 2, (sy * 6) \div 10, randomness),
                  Jitter(g, 3, (sz * 6) \div 10, randomness)>>
  IN  VAdd(base, offset)

GridPoint(g, n, cells, bmin, bmax, randomness) ==
  LET x  == n \div (cells * cells)
      y  == (n \div cells) % cells
      z  == n % cells
      sx == (bmax[1] - bmin[1]) \div cells
      sy == (bmax[2] - bmin[2]) \div cells
      sz == (bmax[3] - bmin[3]) \div cells
      base == <<bmin[1] + x * sx + sx \div 2,
                bmin[2] + y * sy + sy \div 2,
                bmin[3] + z * sz + sz \div 2>>
      offset == <<Jitter(g, 1, (sx * 4) \div 10, randomness),
                  Jitter(g, 2, (sy * 4) \div 10, randomness),
                  Jitter(g, 3, (sz * 4) \div 10, randomness)>>
  IN  VAdd(base, offset)

\* GRID: the three nested loops visit the sites n = 0, 1, ... in order.  A
\* site adds a point while len(points) < count; from then on every pass of
\* the innermost loop breaks at once, so the first min(count, cells^3) sites
\* make the points.
GridLoop(g0, cells, count, bmin, bmax, randomness) ==
  LET made == Min2(count, cells * cells * cells)
  IN  [rng    |-> RngAdvance(g0, 3 * made),
       points |-> AsList([n \in 1 .. made |->
                            GridPoint(RngAdvance(g0, 3 * (n - 1)), n - 1, cells, bmin, bmax,
                                      randomness)])]

RadialNumLayers(count) == Max2(3, IntCbrt(count))

RadialPointsPerLayer(count) == count \div RadialNumLayers(count)

\* RADIAL: the point made in one pass of the inner loop of the given layer
RadialPoint(g, layer, layers, bmin, bmax, randomness) ==
  LET center == Center(bmin, bmax)
      radius == ((layer + 1) * VLength(VSub(bmax, center))) \div layers
      theta  == RandomEighths(g, 1)
      phi    == RandomEighths(g, 2)
      point  == <<center[1] + (radius * SinPi(phi) * CosTwoPi(theta)) \div 1000000,
                  center[2] + (radius * SinPi(phi) * SinTwoPi(theta)) \div 1000000,
                  center[3] + (radius * CosPi(phi)) \div 1000>>
      offset == <<Jitter(g, 3, (radius * 3) \div 10, randomness),
                  Jitter(g, 4, (radius * 3) \div 10, randomness),
                  Jitter(g, 5, (radius * 3) \div 10, randomness)>>
  IN  VAdd(point, offset)

\* RADIAL: num_layers layers of points_per_layer points each, layer by layer
RadialLoop(g0, layers, per, bmin, bmax, randomness) ==
  [rng    |-> RngAdvance(g0, 5 * layers * per),
   points |-> AsList([n \in 1 .. layers * per |->
                        RadialPoint(RngAdvance(g0, 5 * (n - 1)), (n - 1) \div per, layers,
                                    bmin, bmax, randomness)])]

\* SPLINTER: the point made in one pass of the loop
SplinterPoint(g, bmin, bmax, randomness) ==
  LET center == Center(bmin, bmax)
      main_axis_length == bmax[3] - bmin[3]
      z      == Uniform(g, 1, bmin[3], bmax[3])
      radius == (Min2(bmax[1] - center[1], bmax[2] - center[2]) * 8) \div 10
      angle  == RandomEighths(g, 2)
      \* random.uniform(0.2, 1.0), in tenths
      fx     == 2 + RandomEighths(g, 3)
      fy     == 2 + RandomEighths(g, 4)
      point  == <<center[1] + (radius * CosTwoPi(angle) * fx) \div 10000,
                  center[2] + (radius * SinTwoPi(angle) * fy) \div 10000,
                  z>>
      offset == <<Jitter(g, 5, (radius * 2) \div 10, randomness),
                  Jitter(g, 6, (radius * 2) \div 10, randomness),
                  Jitter(g, 7, (main_axis_length * 5) \div 100, randomness)>>
  IN  VAdd(point, offset)

SplinterLoop(g0, count, bmin, bmax, randomness) ==
  [rng    |-> RngAdvance(g0, 7 * count),
   points |-> AsList([i \in 1 .. count |->
                        SplinterPoint(RngAdvance(g0, 7 * (i - 1)), bmin, bmax, randomness)])]

\* points[:count]
Take(s, n) == IF Len(s) <= n THEN s ELSE SubSeq(s, 1, n)

\* generate_voronoi_points(count, bounds_min, bounds_max, pattern, seed, randomness)
\* called when the global generator is in state g; returns the point list and
\* the state the generator is left in.
generate_voronoi_points(g, count, bmin, bmax, pattern, seed, randomness) ==
  LET g0 == SeedRng(g, seed)
      r  == CASE pattern = "RANDOM"   -> RandomLoop(g0, count, bmin, bmax)
              [] pattern = "GRID"     -> GridLoop(g0, GridCellsPerAxis(count), count,
                                                  bmin, bmax, randomness)
              [] pattern = "RADIAL"   -> RadialLoop(g0, RadialNumLayers(count),
                                                    RadialPointsPerLayer(count),
                                                    bmin, bmax, randomness)
              [] pattern = "SPLINTER" -> SplinterLoop(g0, count, bmin, bmax, randomness)
              [] OTHER                -> [rng |-> g0, points |-> <<>>]
  IN  [rng |-> r.rng, points |-> Take(r.points, count)]

\* ------------------------------------------------------------------------
\* lloyd_relaxation
\* ------------------------------------------------------------------------
\* min(points, key=lambda p: (p - sample).length): the first point at the
\* least distance (distances are compared squared)
ClosestPoint(points, sample) ==
  LET d(k) == VLengthSq(VSub(points[k], sample))
      best == CHOOSE k \in 1 .. Len(points) :
                /\ \A j \in 1 .. Len(points) : d(k) <= d(j)
                /\ \A j \in 1 .. k - 1 : d(j) > d(k)
  IN  points[best]

\* the sample drawn in one pass of the inner loop
DrawSampleAroundMax(g, bmin, bmax) ==
  <<Uniform(g, 1, bmin[1], bmax[1] + (bmax[1] - bmin[1])),
    Uniform(g, 2, bmin[2], bmax[2] + (bmax[2] - bmin[2])),
    Uniform(g, 3, bmin[3], bmax[3] + (bmax[3] - bmin[3]))>>

DrawSample(g, bmin, bmax) ==
  <<Uniform(g, 1, bmin[1], bmax[1]),
    Uniform(g, 2, bmin[2], bmax[2]),
    Uniform(g, 3, bmin[3], bmax[3])>>

RECURSIVE VSum(_, _)
VSum(vs, n) == IF n <= 0 THEN <<0, 0, 0>> ELSE VAdd(VSum(vs, n - 1), vs[n])

\* the inner loop for one point, the generator being in state g when it starts:
\* region_points, the samples whose closest centre equals the point, in the
\* order drawn
RegionPoints(g, points, point, bmin, bmax) ==
  LET drawn == AsList([i \in 1 .. samples |->
                         DrawSample(RngAdvance(g, 3 * (i - 1)), bmin, bmax)])
  IN  SelectSeq(drawn, LAMBDA sample : ClosestPoint(points, sample) = point)

\* sum(region_points, Vector((0, 0, 0))) / len(region_points), or the point itself
CentroidOrOrigin(region_points, point) ==
  IF Len(region_points) > 0
  THEN LET total == VSum(region_points, Len(region_points))
           n     == Len(region_points)
       IN  <<total[1] \div n, total[2] \div n, total[3] \div n>>
  ELSE <<0, 0, 0>>

Centroid(region_points, point) ==
  IF Len(region_points) > 0
  THEN LET total == VSum(region_points, Len(region_points))
           n     == Len(region_points)
       IN  <<total[1] \div n, total[2] \div n, total[3] \div n>>
  ELSE point

\* one iteration: every point draws its own samples (3 * samples values),
\* one point after the other, against the positions the iteration started with
RelaxPoints(g, points, bmin, bmax) ==
  [rng    |-> RngAdvance(g, 3 * samples * Len(points)),
   points |-> AsList([k \in 1 .. Len(points) |->
                        Centroid(RegionPoints(RngAdvance(g, 3 * samples * (k - 1)), points,
                                              points[k], bmin, bmax),
                                 points[k])])]

\* the samples one iteration draws, in the order drawn: the point each was
\* drawn for (its index), the index of the first point closest to it, and
\* whether it was appended to region_points
IterationSamples(g, points, bmin, bmax) ==
  AsList([n \in 1 .. samples * Len(points) |->
            LET k      == 1 + (n - 1) \div samples
                sample == DrawSample(RngAdvance(g, 3 * (n - 1)), bmin, bmax)
            IN  [drawnFor |-> k,
                 sample   |-> sample,
                 closest  |-> CHOOSE j \in 1 .. Len(points) :
                                /\ points[j] = ClosestPoint(points, sample)
                                /\ \A h \in 1 .. j - 1 : points[h] # points[j],
                 appended |-> ClosestPoint(points, sample) = points[k]]])

\* lloyd_relaxation(points, bounds_min, bounds_max, iterations) called when the
\* global generator is in state g
lloyd_relaxationDrawing(g, points, bmin, bmax, iterations) ==
  [rng |-> RngStep(g), points |-> points]

RECURSIVE lloyd_relaxation(_, _, _, _, _)
lloyd_relaxation(g, points, bmin, bmax, iterations) ==
  IF iterations <= 0 THEN [rng |-> g, points |-> points]
  ELSE LET r == RelaxPoints(g, points, bmin, bmax)
       IN  lloyd_relaxation(r.rng, r.points, bmin, bmax, iterations - 1)

\* ------------------------------------------------------------------------
\* The object's fracture properties (LoreFractureProperties)
\* ------------------------------------------------------------------------
\* hard limits of the properties; volumes in cubic units (0.0001 m^3 and
\* 1.0 m^3), randomness in tenths
CellCountMin == 3

CellCountMax == 500

SeedMin == 0

SeedMax == 99999

RandomnessMin == 0

RandomnessMax == 10

VolumeMin == 2700

VolumeMax == 27000000

\* Assigning to an Int/Float property with a hard min and max stores the value
\* clamped to [min, max].
ClampNone(v, lo, hi) == v

Clamp(v, lo, hi) == IF v < lo THEN lo ELSE IF v > hi THEN hi ELSE v

\* the property group after the values of `raw` have been assigned to it
StoredProps(raw) ==
  [fracture_enabled     |-> raw.fracture_enabled,
   voronoi_cell_count   |-> Clamp(raw.voronoi_cell_count, CellCountMin, CellCountMax),
   fracture_seed        |-> Clamp(raw.fracture_seed, SeedMin, SeedMax),
   fracture_randomness  |-> Clamp(raw.fracture_randomness, RandomnessMin, RandomnessMax),
   fracture_pattern     |-> raw.fracture_pattern,
   minimum_piece_volume |-> Clamp(raw.minimum_piece_volume, VolumeMin, VolumeMax)]

\* ------------------------------------------------------------------------
\* create_voronoi_pieces
\* ------------------------------------------------------------------------
\* World-space bounding boxes the pieces of the cell-fracture step may have:
\* volumes 1000, 2700 (= 0.0001 m^3) and 270000 (= 0.01 m^3, the default
\* minimum_piece_volume).
PieceBoxes ==
  { [min |-> <<0, 0, 0>>, max |-> <<10, 10, 10>>],
    [min |-> <<300, 0, 0>>, max |-> <<330, 30, 3>>],
    [min |-> <<0, 300, 0>>, max |-> <<60, 375, 60>>] }

RECURSIVE SeqsUpTo(_, _)
SeqsUpTo(S, n) ==
  IF n = 0 THEN {<<>>}
  ELSE LET shorter == SeqsUpTo(S, n - 1)
       IN  shorter \cup {Append(q, x) : q \in shorter, x \in S}

\* What bpy.ops.object.add_fracture_cell_objects does when called: it raises,
\* or it leaves the pieces it created selected (possibly none).
CapBehaviours ==
  {[raises |-> TRUE, boxes |-> <<>>]}
    \cup {[raises |-> FALSE, boxes |-> bs] : bs \in SeqsUpTo(PieceBoxes, MaxPieces)}

\* piece.bound_box transformed by matrix_world: the eight corners
Corners(box) ==
  {<<x, y, z>> : x \in {box.min[1], box.max[1]}, y \in {box.min[2], box.max[2]},
                 z \in {box.min[3], box.max[3]}}

SetMax(S) == CHOOSE m \in S : \A x \in S : x <= m

SetMin(S) == CHOOSE m \in S : \A x \in S : m <= x

\* the volume of a piece, approximated by its bounding box
BBoxVolume(piece) ==
  LET bbox == Corners(piece.bbox)
      xs   == {v[1] : v \in bbox}
      ys   == {v[2] : v \in bbox}
      zs   == {v[3] : v \in bbox}
  IN  (SetMax(xs) - SetMin(xs)) * (SetMax(ys) - SetMin(ys)) * (SetMax(zs) - SetMin(zs))

\* if volume >= minimum_piece_volume
KeepsPieceStrict(volume, minimum_piece_volume) == volume > minimum_piece_volume

KeepsPiece(volume, minimum_piece_volume) == volume >= minimum_piece_volume

\* the filter loop over the pieces: filtered_pieces, and the pieces removed
\* from bpy.data.objects
RECURSIVE FilterPieces(_, _, _, _, _)
FilterPieces(pieces, k, minimum_piece_volume, filtered_pieces, removed) ==
  IF k > Len(pieces) THEN [filtered |-> filtered_pieces, removed |-> removed]
  ELSE IF KeepsPiece(BBoxVolume(pieces[k]), minimum_piece_volume)
       THEN FilterPieces(pieces, k + 1, minimum_piece_volume,
                         Append(filtered_pieces, pieces[k]), removed)
       ELSE FilterPieces(pieces, k + 1, minimum_piece_volume,
                         filtered_pieces, removed \cup {pieces[k]})

\* create_voronoi_pieces(obj, points, minimum_piece_volume) in a host where
\* the add-on is enabled or not (enabled), can be enabled or not (installed),
\* `clouds` "FracturePoints" objects exist and the object is hidden or not,
\* the cell-fracture operator behaving as `cap` if it is called.
create_voronoi_pieces(enabled, installed, clouds, hidden, points, minimum_piece_volume, cap) ==
  LET \* addon_enable is tried when the add-on is not enabled; a failure is caught
      enabledNow == enabled \/ installed
  IN  IF enabledNow /\ ~cap.raises
      THEN LET pieces == AsList([i \in 1 .. Len(cap.boxes) |-> [id |-> i, bbox |-> cap.boxes[i]]])
               f      == FilterPieces(pieces, 1, minimum_piece_volume, <<>>, {})
           IN  [pieces    |-> f.filtered,
                produced  |-> pieces,
                removed   |-> f.removed,
                capCalls  |-> 1,
                raised    |-> FALSE,
                nGen      |-> Len(points),
                enabled   |-> enabledNow,
                \* the point cloud is created, then removed after the filter
                clouds    |-> clouds,
                hidden    |-> TRUE]
      ELSE IF enabledNow
      THEN \* the operator raised: the exception is printed, the fallback returns []
           [pieces    |-> <<>>,
            produced  |-> <<>>,
            removed   |-> {},
            capCalls  |-> 1,
            raised    |-> TRUE,
            nGen      |-> Len(points),
            enabled   |-> enabledNow,
            clouds    |-> clouds + 1,
            hidden    |-> hidden]
      ELSE \* add-on not available: the fallback returns []
           [pieces    |-> <<>>,
            produced  |-> <<>>,
            removed   |-> {},
            capCalls  |-> 0,
            raised    |-> FALSE,
            nGen      |-> Len(points),
            enabled   |-> enabledNow,
            clouds    |-> clouds,
            hidden    |-> hidden]

\* ------------------------------------------------------------------------
\* The operators
\* ------------------------------------------------------------------------
\* iterations of the relaxation in both operators
RelaxIterations == 2

\* seed offset between the variations of a batch
SeedStride == 1000

\* what a call did, before anything has been called
NoRequest ==
  [kind       |-> "none",
   sampled    |-> FALSE,    \* generate_voronoi_points was called
   sampleArgs |-> <<>>,     \* ... with these arguments
   relaxed    |-> FALSE,    \* lloyd_relaxation was called
   fragmented |-> FALSE,    \* create_voronoi_pieces was called
   gens       |-> <<>>,     \* ... with these points
   minVolume  |-> 0,        \* ... and this minimum_piece_volume
   capCalls   |-> 0,        \* calls of add_fracture_cell_objects
   raised     |-> FALSE,    \* add_fracture_cell_objects raised
   produced   |-> <<>>,     \* the pieces it created
   removed    |-> {},       \* the pieces removed from bpy.data.objects
   pieces     |-> <<>>,     \* the list create_voronoi_pieces returned
   outcome    |-> "NONE",   \* the operator's return value
   report     |-> [level |-> "NONE", message |-> "", count |-> 0]]
                            \* self.report: level, text, and the number in the text

\* the part both operators share: sample, then relax, on the object's bounds
FracturePipeline(g, p, bounds) ==
  LET args      == [count      |-> p.voronoi_cell_count,
                    bounds     |-> bounds,
                    pattern    |-> p.fracture_pattern,
                    seed       |-> p.fracture_seed,
                    randomness |-> p.fracture_randomness]
      generated == generate_voronoi_points(g, args.count, bounds.min, bounds.max,
                                           args.pattern, args.seed, args.randomness)
      relaxedTo == lloyd_relaxation(generated.rng, generated.points, bounds.min, bounds.max,
                                    RelaxIterations)
  IN  [rng |-> relaxedTo.rng, args |-> args, generated |-> generated.points,
       points |-> relaxedTo.points]

\* the operator's return value
VoronoiOutcomeAlwaysFinished(pieces) == "FINISHED"

VoronoiOutcome(pieces) == IF Len(pieces) > 0 THEN "FINISHED" ELSE "CANCELLED"

\* the operator's report after fragmentation
VoronoiReport(pieces) ==
  IF Len(pieces) > 0
  THEN [level |-> "INFO", message |-> "Created fracture pieces", count |-> Len(pieces)]
  ELSE [level |-> "WARNING", message |-> "Fracture generation failed", count |-> 0]

\* LORE_OT_VoronoiFracture.execute on the object
VoronoiFracture ==
  /\ bPc = "idle"
  /\ IF ~props.fracture_enabled
     THEN /\ req' = [NoRequest EXCEPT !.kind = "voronoi", !.outcome = "CANCELLED",
                                      !.report = [level |-> "WARNING", count |-> 0,
                                                  message |-> "Fracture is disabled in object properties"]]
          /\ UNCHANGED <<rng, objHidden, addonEnabled, pointClouds>>
     ELSE \E pl \in {FracturePipeline(rng, props, objBounds)}, cap \in CapBehaviours :
            /\ cap.raises => pointClouds < MaxClouds
            /\ \E r \in {create_voronoi_pieces(addonEnabled, addonInstalled, pointClouds,
                                               objHidden, pl.points,
                                               props.minimum_piece_volume, cap)} :
                 /\ rng' = pl.rng
                 /\ addonEnabled' = r.enabled
                 /\ pointClouds' = r.clouds
                 /\ objHidden' = r.hidden
                 /\ req' = [kind       |-> "voronoi",
                            sampled    |-> TRUE,
                            sampleArgs |-> pl.args,
                            relaxed    |-> TRUE,
                            fragmented |-> TRUE,
                            gens       |-> pl.points,
                            minVolume  |-> props.minimum_piece_volume,
                            capCalls   |-> r.capCalls,
                            raised     |-> r.raised,
                            produced   |-> r.produced,
                            removed    |-> r.removed,
                            pieces     |-> r.pieces,
                            outcome    |-> VoronoiOutcome(r.pieces),
                            report     |-> VoronoiReport(r.pieces)]
  /\ UNCHANGED <<samplerVars, assigned, props, objBounds, addonInstalled, batchVars>>
  /\ UNCHANGED <<crackVars, invocationVars>>
  /\ UNCHANGED <<objCracked, relaxVars>>

\* the points a caller passes to create_voronoi_pieces directly
DirectPoints(n) == AsList([i \in 1 .. n |-> <<100 * i, 50 * i, 25 * i>>])

\* a call create_voronoi_pieces(obj, points, minimum_piece_volume) from a script
CallCreatePieces ==
  /\ bPc = "idle"
  /\ \E n \in 0 .. MaxCount, cap \in CapBehaviours :
       /\ cap.raises => pointClouds < MaxClouds
       /\ \E r \in {create_voronoi_pieces(addonEnabled, addonInstalled, pointClouds,
                                          objHidden, DirectPoints(n),
                                          props.minimum_piece_volume, cap)} :
            /\ addonEnabled' = r.enabled
            /\ pointClouds' = r.clouds
            /\ objHidden' = r.hidden
            /\ req' = [NoRequest EXCEPT !.kind = "create",
                                        !.fragmented = TRUE,
                                        !.gens = DirectPoints(n),
                                        !.minVolume = props.minimum_piece_volume,
                                        !.capCalls = r.capCalls,
                                        !.raised = r.raised,
                                        !.produced = r.produced,
                                        !.removed = r.removed,
                                        !.pieces = r.pieces,
                                        !.outcome = "RETURNED"]
  /\ UNCHANGED <<rng, samplerVars, assigned, props, objBounds, addonInstalled, batchVars>>
  /\ UNCHANGED <<crackVars, invocationVars>>
  /\ UNCHANGED <<objCracked, relaxVars>>

\* LORE_OT_BatchFracture.execute, up to its loop
BatchStart ==
  /\ bPc = "idle"
  /\ \E n \in 1 .. MaxVariations : bCount' = n
  /\ bPc' = "loop"
  /\ bI' = 0
  /\ bRuns' = <<>>
  /\ req' = [NoRequest EXCEPT !.kind = "batch"]
  /\ UNCHANGED <<rng, samplerVars, objectVars, hostVars>>
  /\ UNCHANGED <<crackVars, invocationVars>>
  /\ UNCHANGED <<objCracked, relaxVars>>

\* obj_copy.lore_fracture.fracture_seed = fracture_props.fracture_seed + i * 1000
VariationSeedOfOriginal(seed, i) == Clamp(seed, SeedMin, SeedMax)

VariationSeed(seed, i) == Clamp(seed + i * SeedStride, SeedMin, SeedMax)

\* for i in range(variation_count): the loop is over after variation_count
\* passes, whatever the passes did
LoopDoneOnFailure(i, variation_count, runs) ==
  i >= variation_count \/ (Len(runs) > 0 /\ runs[Len(runs)].nPieces = 0)

LoopDone(i, variation_count, runs) == i >= variation_count

\* one pass of the loop: copy the object, set its seed, fracture the copy
\* (execute_fracture_on_object)
BatchRun ==
  /\ bPc = "loop"
  /\ ~LoopDone(bI, bCount, bRuns)
  /\ \E copyProps \in {[props EXCEPT !.fracture_seed = VariationSeed(props.fracture_seed, bI)]} :
       \E pl \in {FracturePipeline(rng, copyProps, objBounds)}, cap \in CapBehaviours :
         /\ cap.raises => pointClouds < MaxClouds
         /\ \E r \in {create_voronoi_pieces(addonEnabled, addonInstalled, pointClouds,
                                            FALSE, pl.points,
                                            copyProps.minimum_piece_volume, cap)} :
              /\ rng' = pl.rng
              /\ addonEnabled' = r.enabled
              /\ pointClouds' = r.clouds
              /\ bRuns' = Append(bRuns, [i          |-> bI,
                                         seed       |-> copyProps.fracture_seed,
                                         sampled    |-> TRUE,
                                         sampleArgs |-> pl.args,
                                         relaxed    |-> TRUE,
                                         fragmented |-> TRUE,
                                         gens       |-> pl.points,
                                         capCalls   |-> r.capCalls,
                                         raised     |-> r.raised,
                                         nPieces    |-> Len(r.pieces),
                                         copyHidden |-> r.hidden])
  /\ bI' = bI + 1
  /\ UNCHANGED <<samplerVars, objectVars, addonInstalled, req, bPc, bCount>>
  /\ UNCHANGED <<crackVars, invocationVars>>
  /\ UNCHANGED <<objCracked, relaxVars>>

\* the loop is over: report and return FINISHED
BatchEnd ==
  /\ bPc = "loop"
  /\ LoopDone(bI, bCount, bRuns)
  /\ bPc' = "idle"
  /\ req' = [req EXCEPT !.outcome = "FINISHED",
                         !.report = [level |-> "INFO", count |-> bCount,
                                message |-> "Generated fracture variations"]]
  /\ UNCHANGED <<rng, samplerVars, objectVars, hostVars, bCount, bI, bRuns>>
  /\ UNCHANGED <<crackVars, invocationVars>>
  /\ UNCHANGED <<objCracked, relaxVars>>

\* add_procedural_cracks is not running and has not run
CracksIdle ==
  /\ cPc = "idle"
  /\ cMesh = [nverts |-> 0, edges |-> <<>>]
  /\ cCount = 0
  /\ cSeed = 0
  /\ cDepth = 0
  /\ cIdx = 0
  /\ cPath = <<>>
  /\ cLength = 0
  /\ cTravelled = 0
  /\ cDisp = <<>>
  /\ cPaths = <<>>
  /\ objCracked = FALSE

\* lloyd_relaxation has not been called
RelaxIdle ==
  /\ lInput = <<>>
  /\ lIterations = -1
  /\ lPre = -1
  /\ lOut = <<>>
  /\ lTrace = <<>>

\* no pair of invocations is under way
InvocationsIdle ==
  /\ iArgs = <<>>
  /\ iPc = <<>>
  /\ iPoints = <<>>
  /\ iRelaxed = <<>>

SamplerIdle ==
  /\ sArgs = [count |-> 0]
  /\ sOuts = <<>>
  /\ sLastPre = -1
  /\ sPerturbed = FALSE

\* the defaults of LoreFractureProperties
DefaultProps ==
  [fracture_enabled     |-> TRUE,
   voronoi_cell_count   |-> 25,
   fracture_seed        |-> 12345,
   fracture_randomness  |-> 8,
   fracture_pattern     |-> "RANDOM",
   minimum_piece_volume |-> 270000]

BatchIdle ==
  /\ bPc = "idle"
  /\ bCount = 0
  /\ bI = 0
  /\ bRuns = <<>>

\* no operator is used: one object with the default properties
OperatorsIdle ==
  /\ assigned = DefaultProps
  /\ props = StoredProps(DefaultProps)
  /\ objBounds = [min |-> <<0, 0, 0>>, max |-> <<600, 600, 600>>]
  /\ objHidden = FALSE
  /\ addonInstalled = TRUE
  /\ addonEnabled = FALSE
  /\ pointClouds = 0
  /\ req = NoRequest
  /\ BatchIdle
  /\ CracksIdle
  /\ InvocationsIdle
  /\ RelaxIdle

\* one visible object whose properties were assigned the values of `raw`
\* (a script may assign any number), in a host with or without the
\* cell-fracture add-on
ObjectWith(RawSet) ==
  /\ rng = 0
  /\ SamplerIdle
  /\ assigned \in RawSet
  /\ props = StoredProps(assigned)
  /\ objBounds = [min |-> <<0, 0, 0>>, max |-> <<600, 600, 600>>]
  /\ objHidden = FALSE
  /\ addonInstalled \in BOOLEAN
  /\ addonEnabled = FALSE
  /\ pointClouds = 0
  /\ req = NoRequest
  /\ BatchIdle
  /\ CracksIdle
  /\ InvocationsIdle
  /\ RelaxIdle

\* ------------------------------------------------------------------------
\* Specification of the direct fracture operator, run any number of times on
\* an object whose properties were assigned in-range and out-of-range values.
\* ------------------------------------------------------------------------
FractureRawProps ==
  [fracture_enabled     : BOOLEAN,
   voronoi_cell_count   : {2, MaxCount},
   fracture_seed        : {100},
   fracture_randomness  : {0, 15},
   fracture_pattern     : Patterns,
   minimum_piece_volume : {0, 270000}]

InitFracture == ObjectWith(FractureRawProps)

NextFracture == VoronoiFracture

SpecFracture == InitFracture /\ [][NextFracture]_vars

\* ------------------------------------------------------------------------
\* Specification of create_voronoi_pieces called directly with any number of
\* points.
\* ------------------------------------------------------------------------
CreateRawProps ==
  [fracture_enabled     : {TRUE},
   voronoi_cell_count   : {25},
   fracture_seed        : {12345},
   fracture_randomness  : {8},
   fracture_pattern     : {"RANDOM"},
   minimum_piece_volume : {2700, 270000}]

InitCreate == ObjectWith(CreateRawProps)

NextCreate == CallCreatePieces

SpecCreate == InitCreate /\ [][NextCreate]_vars

\* ------------------------------------------------------------------------
\* Specification of the batch operator, run any number of times.
\* ------------------------------------------------------------------------
BatchRawProps ==
  [fracture_enabled     : BOOLEAN,
   voronoi_cell_count   : {MaxCount},
   fracture_seed        : SeedSet,
   fracture_randomness  : {10},
   fracture_pattern     : {"RANDOM", "GRID"},
   minimum_piece_volume : {270000}]

InitBatch == ObjectWith(BatchRawProps)

NextBatch == BatchStart \/ BatchRun \/ BatchEnd

SpecBatch == InitBatch /\ [][NextBatch]_vars

\* ------------------------------------------------------------------------
\* add_procedural_cracks
\* ------------------------------------------------------------------------
\* crack_length = random.uniform(0.1, 0.5), in units
CrackLengthMin == 30

CrackLengthMax == 150

\* The bmesh after bm.from_mesh and subdivide_edges: nverts vertices (1 ..
\* nverts, the order of bm.verts) and the edges in the order of bm.edges, each
\* with its end points and its length in units.  The first mesh is a strip of
\* two edges and a loose vertex; the second is the same strip scaled by two;
\* the third is a triangle.
MeshSet ==
  { [nverts |-> 4,
     edges  |-> << [a |-> 1, b |-> 2, length |-> 30],
                   [a |-> 2, b |-> 3, length |-> 30] >>],
    [nverts |-> 4,
     edges  |-> << [a |-> 1, b |-> 2, length |-> 60],
                   [a |-> 2, b |-> 3, length |-> 60] >>],
    [nverts |-> 3,
     edges  |-> << [a |-> 1, b |-> 2, length |-> 45],
                   [a |-> 2, b |-> 3, length |-> 60],
                   [a |-> 3, b |-> 1, length |-> 75] >>] }

\* A mesh with coincident vertices: an edge of length zero, cut in three by
\* subdivide_edges(cuts=2); every next_edge.calc_length() on it is 0.
DegenerateMesh ==
  [nverts |-> 4,
   edges  |-> << [a |-> 1, b |-> 2, length |-> 0],
                 [a |-> 2, b |-> 3, length |-> 0],
                 [a |-> 3, b |-> 4, length |-> 0] >>]

\* the meshes add_procedural_cracks is called on
CrackMeshes == MeshSet \cup {DegenerateMesh}

\* crack_path is kept up to this many vertices and the current vertex; a walk
\* on edges of positive length ends before its path is that long
MaxSteps == 6

\* crack_depth in millimetres (the operator allows 1 .. 100, default 10)
DepthSet == {1, 10}

CrackSeedSet == {0, 3, 4, 9, 12345, 99999}

\* the shortest edge of the meshes, and the most steps a walk can take on them
MinEdgeLength == SetMin(UNION {{m.edges[k].length : k \in DOMAIN m.edges} : m \in MeshSet})

MaxWalkSteps == (CrackLengthMax + MinEdgeLength - 1) \div MinEdgeLength

RECURSIVE Gcd(_, _)
Gcd(a, b) == IF b = 0 THEN a ELSE Gcd(b, a % b)

RECURSIVE LcmUpTo(_)
LcmUpTo(n) == IF n <= 1 THEN 1 ELSE (LcmUpTo(n - 1) * n) \div Gcd(LcmUpTo(n - 1), n)

\* Displacements are kept exactly, in units of 1/DispScale millimetre: the
\* squares of all path lengths that can occur divide DispScale.
DispScale == LcmUpTo(MaxWalkSteps) * LcmUpTo(MaxWalkSteps)

\* random.choice(seq) as the k-th draw after state g: an index of seq
Choice(g, k, n) == 1 + (n * RandomEighths(g, k)) \div 8

\* [e for e in current_vert.link_edges]
LinkEdges(mesh, v) == SelectSeq(mesh.edges, LAMBDA e : e.a = v \/ e.b = v)

\* next_edge.other_vert(current_vert)
OtherVert(e, v) == IF e.a = v THEN e.b ELSE e.a

\* depth_factor of the vertex at index i of a path of n vertices, times
\* DispScale: progress = i / max(1, n - 1), (1 - |progress - 0.5| * 2) ** 2
DepthFactorNoAbs(i, n) ==
  LET m == Max2(1, n - 1)
      t == m - (2 * i - m)
  IN  (t * t * DispScale) \div (m * m)

DepthFactorUntapered(i, n) == DispScale

DepthFactor(i, n) ==
  LET m == Max2(1, n - 1)
      t == m - Abs(2 * i - m)
  IN  (t * t * DispScale) \div (m * m)

\* the displacement loop over crack_path from index i on: vert.co += normal *
\* (-crack_depth * depth_factor), the normal being a unit vector that the loop
\* does not update
RECURSIVE DisplacePath(_, _, _, _)
DisplacePath(disp, path, i, crack_depth) ==
  IF i >= Len(path) THEN disp
  ELSE DisplacePath([disp EXCEPT ![path[i + 1]] = @ + crack_depth * DepthFactor(i, Len(path))],
                    path, i + 1, crack_depth)

\* add_procedural_cracks(obj, crack_count, crack_depth, seed=seed) is called:
\* seed the generator, build and subdivide the bmesh
AddCracksCall ==
  /\ cPc = "idle"
  /\ \E mesh \in CrackMeshes, crack_count \in 0 .. MaxCracks, crack_depth \in DepthSet,
        seed \in CrackSeedSet :
       /\ rng' = SeedRng(rng, seed)
       /\ cMesh' = mesh
       /\ cCount' = crack_count
       /\ cSeed' = seed
       /\ cDepth' = crack_depth
       /\ cDisp' = [v \in 1 .. mesh.nverts |-> 0]
  /\ cIdx' = 0
  /\ cPath' = <<>>
  /\ cLength' = 0
  /\ cTravelled' = 0
  /\ cPaths' = <<>>
  /\ cPc' = "loop"
  /\ UNCHANGED <<samplerVars, objectVars, hostVars, req, batchVars, invocationVars>>
  /\ UNCHANGED <<objCracked, relaxVars>>

\* a pass of the for loop begins: start vertex and crack length are drawn
CrackBegin ==
  /\ cPc = "loop"
  /\ cIdx < cCount
  /\ cPath' = <<Choice(rng, 1, cMesh.nverts)>>
  /\ cLength' = Uniform(rng, 2, CrackLengthMin, CrackLengthMax)
  /\ cTravelled' = 0
  /\ rng' = RngAdvance(rng, 2)
  /\ cPc' = "walk"
  /\ UNCHANGED <<cMesh, cCount, cSeed, cDepth, cIdx, cDisp, cPaths>>
  /\ UNCHANGED <<samplerVars, objectVars, hostVars, req, batchVars, invocationVars>>
  /\ UNCHANGED <<objCracked, relaxVars>>

\* one pass of the while loop that does not break
CrackStep ==
  /\ cPc = "walk"
  /\ cTravelled < cLength
  /\ \E connected_edges \in {LinkEdges(cMesh, cPath[Len(cPath)])} :
       /\ connected_edges # <<>>
       /\ \E next_edge \in {connected_edges[Choice(rng, 1, Len(connected_edges))]} :
            /\ cPath' = Append(SubSeq(cPath, 1, Min2(Len(cPath), MaxSteps)),
                                OtherVert(next_edge, cPath[Len(cPath)]))
            /\ cTravelled' = cTravelled + next_edge.length
  /\ rng' = RngStep(rng)
  /\ UNCHANGED <<cPc, cMesh, cCount, cSeed, cDepth, cIdx, cLength, cDisp, cPaths>>
  /\ UNCHANGED <<samplerVars, objectVars, hostVars, req, batchVars, invocationVars>>
  /\ UNCHANGED <<objCracked, relaxVars>>

\* the while loop ends (length reached, or break at a vertex without edges)
\* and the vertices of the path are displaced
CrackDisplace ==
  /\ cPc = "walk"
  /\ cTravelled >= cLength \/ LinkEdges(cMesh, cPath[Len(cPath)]) = <<>>
  /\ cDisp' = DisplacePath(cDisp, cPath, 0, cDepth)
  /\ cPaths' = Append(cPaths, cPath)
  /\ cIdx' = cIdx + 1
  /\ cPc' = "loop"
  /\ UNCHANGED <<rng, cMesh, cCount, cSeed, cDepth, cPath, cLength, cTravelled>>
  /\ UNCHANGED <<samplerVars, objectVars, hostVars, req, batchVars, invocationVars>>
  /\ UNCHANGED <<objCracked, relaxVars>>

\* the for loop is over: bm.to_mesh(mesh), return obj
AddCracksReturn ==
  /\ cPc = "loop"
  /\ cIdx >= cCount
  /\ cPc' = "idle"
  /\ UNCHANGED <<rng, cMesh, cCount, cSeed, cDepth, cIdx, cPath, cLength, cTravelled, cDisp, cPaths>>
  /\ UNCHANGED <<samplerVars, objectVars, hostVars, req, batchVars, invocationVars>>
  /\ UNCHANGED relaxVars
  /\ objCracked' = TRUE

\* The while loop as a function: the walk from the end of `path`, the
\* generator being in state g: the path it builds and the generator after it.
RECURSIVE CrackWalk(_, _, _, _, _)
CrackWalk(g, mesh, crack_path, traveled_distance, crack_length) ==
  LET current_vert    == crack_path[Len(crack_path)]
      connected_edges == LinkEdges(mesh, current_vert)
  IN  IF traveled_distance < crack_length /\ connected_edges # <<>>
      THEN LET next_edge == connected_edges[Choice(g, 1, Len(connected_edges))]
           IN  CrackWalk(RngStep(g), mesh, Append(crack_path, OtherVert(next_edge, current_vert)),
                         traveled_distance + next_edge.length, crack_length)
      ELSE [rng |-> g, path |-> crack_path]

\* The for loop as a function: the paths of crack_count cracks, the generator
\* being in state g before the first
RECURSIVE CrackPaths(_, _, _)
CrackPaths(g, mesh, crack_count) ==
  IF crack_count <= 0 THEN [rng |-> g, paths |-> <<>>]
  ELSE LET before == CrackPaths(g, mesh, crack_count - 1)
           walk   == CrackWalk(RngAdvance(before.rng, 2), mesh,
                               <<Choice(before.rng, 1, mesh.nverts)>>, 0,
                               Uniform(before.rng, 2, CrackLengthMin, CrackLengthMax))
       IN  [rng |-> walk.rng, paths |-> Append(before.paths, walk.path)]

\* ------------------------------------------------------------------------
\* Specification of add_procedural_cracks, called any number of times.
\* ------------------------------------------------------------------------
InitCracks ==
  /\ rng = 0
  /\ SamplerIdle
  /\ OperatorsIdle

NextCracks == AddCracksCall \/ CrackBegin \/ CrackStep \/ CrackDisplace \/ AddCracksReturn

SpecCracks == InitCracks /\ [][NextCracks]_vars

\* add_procedural_cracks runs in one thread from its call to its return: a
\* step of its loops that can be taken is taken.
SpecCracksFair ==
  /\ InitCracks
  /\ [][NextCracks]_vars
  /\ WF_vars(CrackBegin)
  /\ WF_vars(CrackStep)
  /\ WF_vars(CrackDisplace)
  /\ WF_vars(AddCracksReturn)

\* C8: in a call of add_procedural_cracks no vertex is displaced by more than
\* crack_depth in total, however often the crack paths visit it.
C8_DisplacementBounded ==
  \A v \in DOMAIN cDisp : cDisp[v] <= cDepth * DispScale

\* vertices and edges without the geometry
Topology(mesh) ==
  [nverts |-> mesh.nverts,
   edges  |-> AsList([k \in 1 .. Len(mesh.edges) |-> <<mesh.edges[k].a, mesh.edges[k].b>>])]

\* C13: when a call has returned, its crack paths are the paths that the same
\* seed and crack_count give on every mesh with the same topology.
C13_PathsFromSeedAndTopology ==
  (cPc = "idle" /\ cMesh.nverts > 0) =>
    \A mesh \in MeshSet :
      Topology(mesh) = Topology(cMesh) =>
        CrackPaths(SeedRng(0, cSeed), mesh, cCount).paths = cPaths

\* C18: the depth factor of every vertex of a path is in [0, 1], and the
\* displacement pass moves no vertex outward: every vertex's displacement
\* against its normal grows or stays.
C18_DisplacementInward ==
  [][(cPc = "walk" /\ cPc' = "loop") =>
       /\ cDepth >= 0
       /\ \A i \in 0 .. Len(cPath) - 1 :
            DepthFactor(i, Len(cPath)) >= 0 /\ DepthFactor(i, Len(cPath)) <= DispScale
       /\ \A v \in DOMAIN cDisp :
            /\ cDisp'[v] >= cDisp[v]
            /\ cDisp'[v] - cDisp[v] <= Len(cPath) * cDepth * DispScale]_vars

\* a path of three or more vertices has been displaced
C18_Witness ==
  /\ cPc = "loop"
  /\ Len(cPaths) >= 1
  /\ Len(cPaths[Len(cPaths)]) >= 3
  /\ \E v \in DOMAIN cDisp : cDisp[v] > 0

\* the edge the walk takes at step k of a path, as the set of its end points
StepEdge(path, k) == {path[k], path[k + 1]}

\* C19: no crack walk traverses an edge twice (the meshes have at most one
\* edge between two vertices).
C19_NoEdgeTwice ==
  \A p \in {cPath} \cup {cPaths[k] : k \in 1 .. Len(cPaths)} :
    \A i, j \in 1 .. Len(p) - 1 : i # j => StepEdge(p, i) # StepEdge(p, j)

\* ------------------------------------------------------------------------
\* Specification of two independent invocations whose steps interleave: each
\* samples with its own arguments, then relaxes what it sampled.
\* ------------------------------------------------------------------------
InvocationArgs ==
  [count : {MaxCount}, bounds : {[min |-> <<0, 0, 0>>, max |-> <<600, 600, 600>>]},
   pattern : Patterns, seed : SeedSet, randomness : {10}]

InitInterleave ==
  /\ rng = 0
  /\ SamplerIdle
  /\ assigned = DefaultProps
  /\ props = StoredProps(DefaultProps)
  /\ objBounds = [min |-> <<0, 0, 0>>, max |-> <<600, 600, 600>>]
  /\ objHidden = FALSE
  /\ addonInstalled = TRUE
  /\ addonEnabled = FALSE
  /\ pointClouds = 0
  /\ req = NoRequest
  /\ BatchIdle
  /\ CracksIdle
  /\ RelaxIdle
  /\ iArgs \in [1 .. 2 -> InvocationArgs]
  /\ iPc = [k \in 1 .. 2 |-> "start"]
  /\ iPoints = [k \in 1 .. 2 |-> <<>>]
  /\ iRelaxed = [k \in 1 .. 2 |-> <<>>]

\* invocation k calls generate_voronoi_points
InvocationSample(k) ==
  /\ iPc[k] = "start"
  /\ \E r \in {generate_voronoi_points(rng, iArgs[k].count, iArgs[k].bounds.min,
                                       iArgs[k].bounds.max, iArgs[k].pattern,
                                       iArgs[k].seed, iArgs[k].randomness)} :
       /\ rng' = r.rng
       /\ iPoints' = [iPoints EXCEPT ![k] = r.points]
  /\ iPc' = [iPc EXCEPT ![k] = "sampled"]
  /\ UNCHANGED <<iArgs, iRelaxed>>
  /\ UNCHANGED <<samplerVars, objectVars, hostVars, req, batchVars, crackVars>>
  /\ UNCHANGED <<objCracked, relaxVars>>

\* invocation k calls lloyd_relaxation on the points it sampled
InvocationRelax(k) ==
  /\ iPc[k] = "sampled"
  /\ \E r \in {lloyd_relaxation(rng, iPoints[k], iArgs[k].bounds.min, iArgs[k].bounds.max,
                                RelaxIterations)} :
       /\ rng' = r.rng
       /\ iRelaxed' = [iRelaxed EXCEPT ![k] = r.points]
  /\ iPc' = [iPc EXCEPT ![k] = "relaxed"]
  /\ UNCHANGED <<iArgs, iPoints>>
  /\ UNCHANGED <<samplerVars, objectVars, hostVars, req, batchVars, crackVars>>
  /\ UNCHANGED <<objCracked, relaxVars>>

NextInterleave == \E k \in 1 .. 2 : InvocationSample(k) \/ InvocationRelax(k)

SpecInterleave == InitInterleave /\ [][NextInterleave]_vars

\* what an invocation with these arguments produces when it runs alone
RelaxedAlone(args) ==
  FracturePipeline(0, [voronoi_cell_count  |-> args.count,
                       fracture_pattern    |-> args.pattern,
                       fracture_seed       |-> args.seed,
                       fracture_randomness |-> args.randomness], args.bounds).points

\* C9: whatever the interleaving, each invocation ends with the relaxed
\* points it produces when it runs alone.
C9_InterleavingInvisible ==
  \A k \in DOMAIN iPc : iPc[k] = "relaxed" => iRelaxed[k] = RelaxedAlone(iArgs[k])

\* ------------------------------------------------------------------------
\* Specification of lloyd_relaxation called directly, any number of times, on
\* the points the sampler returns for the object's bounds.
\* ------------------------------------------------------------------------
\* per iteration of a call: the points it starts with and the samples it draws
RECURSIVE RelaxTrace(_, _, _, _, _)
RelaxTrace(g, points, bmin, bmax, iterations) ==
  IF iterations <= 0 THEN <<>>
  ELSE <<[start |-> points, drawn |-> IterationSamples(g, points, bmin, bmax)]>>
         \o RelaxTrace(RelaxPoints(g, points, bmin, bmax).rng,
                       RelaxPoints(g, points, bmin, bmax).points, bmin, bmax, iterations - 1)

RelaxInputs ==
  {generate_voronoi_points(0, count, objBounds.min, objBounds.max, pattern, seed, 10).points :
     count \in {3, MaxCount}, pattern \in Patterns, seed \in SeedSet}

InitRelax ==
  /\ rng \in RngStates
  /\ SamplerIdle
  /\ assigned = DefaultProps
  /\ props = StoredProps(DefaultProps)
  /\ objBounds = [min |-> <<0, 0, 0>>, max |-> <<600, 600, 600>>]
  /\ objHidden = FALSE
  /\ addonInstalled = TRUE
  /\ addonEnabled = FALSE
  /\ pointClouds = 0
  /\ req = NoRequest
  /\ BatchIdle
  /\ CracksIdle
  /\ InvocationsIdle
  /\ lInput \in RelaxInputs
  /\ lIterations = -1
  /\ lPre = -1
  /\ lOut = <<>>
  /\ lTrace = <<>>

\* a call lloyd_relaxation(points, bounds_min, bounds_max, iterations)
CallRelax ==
  /\ \E iterations \in 0 .. MaxIterations :
       \E r \in {lloyd_relaxation(rng, lInput, objBounds.min, objBounds.max, iterations)} :
         /\ rng' = r.rng
         /\ lOut' = r.points
         /\ lIterations' = iterations
         /\ lTrace' = RelaxTrace(rng, lInput, objBounds.min, objBounds.max, iterations)
  /\ lPre' = rng
  /\ UNCHANGED <<lInput, samplerVars, objectVars, hostVars, req, batchVars, crackVars,
                 invocationVars, objCracked>>

NextRelax == CallRelax

SpecRelax == InitRelax /\ [][NextRelax]_vars

\* C15: a call with iterations = 0 returns its input and draws no random
\* number.
C15_ZeroIterationsIdentity ==
  lIterations = 0 => (lOut = lInput /\ rng = lPre)

\* a call with iterations = 0 on a list of points was made
C15_Witness ==
  /\ lIterations = 0
  /\ Len(lInput) >= 3
  /\ lOut = lInput
  /\ rng = lPre

\* C20: every iteration draws one set of `samples` samples, and every sample
\* drawn is appended to the region of the point closest to it.
C20_EverySampleContributes ==
  \A t \in 1 .. Len(lTrace) :
    /\ Len(lTrace[t].drawn) = samples
    /\ \A n \in 1 .. Len(lTrace[t].drawn) : lTrace[t].drawn[n].appended

\* ------------------------------------------------------------------------
\* Specification of the three operators used on one object in any order.
\* ------------------------------------------------------------------------
\* LORE_OT_AddCracks.execute on the object (poll: the active object is a
\* mesh): add_procedural_cracks with the operator's crack_count and
\* crack_depth and the object's fracture_seed, run to its end
AddCracks ==
  /\ bPc = "idle"
  /\ \E mesh \in MeshSet, crack_count \in 1 .. MaxCracks :
       rng' = CrackPaths(SeedRng(rng, props.fracture_seed), mesh, crack_count).rng
  /\ objCracked' = TRUE
  /\ req' = [NoRequest EXCEPT !.kind = "cracks", !.outcome = "FINISHED",
                              !.report = [level |-> "INFO", count |-> 0,
                                          message |-> "Added procedural cracks"]]
  /\ UNCHANGED <<samplerVars, objectVars, hostVars, batchVars, crackVars, invocationVars,
                 relaxVars>>

LifecycleRawProps ==
  [fracture_enabled     : {TRUE},
   voronoi_cell_count   : {3},
   fracture_seed        : {100},
   fracture_randomness  : {10},
   fracture_pattern     : {"RANDOM"},
   minimum_piece_volume : {270000}]

InitLifecycle == ObjectWith(LifecycleRawProps)

NextLifecycle == VoronoiFracture \/ BatchStart \/ BatchRun \/ BatchEnd \/ AddCracks

SpecLifecycle == InitLifecycle /\ [][NextLifecycle]_vars

\* C14: the object is never both hidden by fragmentation and rewritten by
\* crack painting.
C14_HiddenOrCrackedNotBoth == ~(objHidden /\ objCracked)

\* ------------------------------------------------------------------------
\* Specification of the sampler alone: one argument tuple, called repeatedly
\* while other code draws from the shared generator in between.
\* ------------------------------------------------------------------------
SampleArgs ==
  [count : CountSet, bounds : BoundsSet, pattern : Patterns,
   seed : SeedSet, randomness : RandomnessSet]

InitSample ==
  /\ rng \in RngStates
  /\ sArgs \in SampleArgs
  /\ sOuts = <<>>
  /\ sLastPre = -1
  /\ sPerturbed = FALSE
  /\ OperatorsIdle

\* a call generate_voronoi_points(count, bounds_min, bounds_max, pattern, seed, randomness)
CallSample ==
  /\ Len(sOuts) < MaxCalls
  /\ LET r == generate_voronoi_points(rng, sArgs.count, sArgs.bounds.min, sArgs.bounds.max,
                                      sArgs.pattern, sArgs.seed, sArgs.randomness)
     IN  /\ rng' = r.rng
         /\ sOuts' = Append(sOuts, r.points)
  /\ sLastPre' = rng
  /\ sPerturbed' = (sPerturbed \/ (sLastPre # -1 /\ sLastPre # rng))
  /\ UNCHANGED <<sArgs, objectVars, hostVars, req, batchVars>>
  /\ UNCHANGED <<crackVars, invocationVars>>
  /\ UNCHANGED <<objCracked, relaxVars>>

\* any other code drawing one number from the shared generator
ConsumeRandom ==
  /\ rng' = RngStep(rng)
  /\ UNCHANGED <<samplerVars, objectVars, hostVars, req, batchVars>>
  /\ UNCHANGED <<crackVars, invocationVars>>
  /\ UNCHANGED <<objCracked, relaxVars>>

NextSample == CallSample \/ ConsumeRandom

SpecSample == InitSample /\ [][NextSample]_vars

\* C1: for every pattern and every count >= 3 the sampler returns exactly
\* count points.
C1_ExactlyCount ==
  \A i \in 1 .. Len(sOuts) : Len(sOuts[i]) = sArgs.count

\* C2: calls with identical arguments return identical point lists, whatever
\* was drawn from the shared generator before or between them.
C2_SamplingPure ==
  \A i, j \in 1 .. Len(sOuts) : sOuts[i] = sOuts[j]

\* two calls were made from different generator states, with jitter switched on
C2_Witness ==
  /\ Len(sOuts) >= 2
  /\ sPerturbed
  /\ sArgs.randomness > 0
  /\ Len(sOuts[1]) >= 3
  /\ sOuts[1] = sOuts[2]

\* ------------------------------------------------------------------------
\* Properties of create_voronoi_pieces and of the two operators
\* ------------------------------------------------------------------------
\* C3: a piece the cell-fracture step produced is in the returned list if and
\* only if its bounding-box volume is >= minimum_piece_volume; the pieces below
\* the threshold are exactly the ones removed, and the returned pieces are in
\* the order in which they were produced.
C3_RetainedIffLargeEnough ==
  req.fragmented =>
    /\ \A k \in 1 .. Len(req.produced) :
         /\ (\E j \in 1 .. Len(req.pieces) : req.pieces[j] = req.produced[k])
              <=> BBoxVolume(req.produced[k]) >= req.minVolume
         /\ req.produced[k] \in req.removed
              <=> BBoxVolume(req.produced[k]) < req.minVolume
    /\ \A j \in 1 .. Len(req.pieces) :
         \E k \in 1 .. Len(req.produced) : req.pieces[j] = req.produced[k]
    /\ \A i, j \in 1 .. Len(req.pieces) :
         i < j => req.pieces[i].id < req.pieces[j].id

\* a call that produced a piece exactly at the threshold and kept it, and a
\* smaller one that it removed
C3_Witness ==
  /\ req.kind = "create"
  /\ Len(req.produced) = 2
  /\ Len(req.pieces) = 1
  /\ BBoxVolume(req.pieces[1]) = req.minVolume
  /\ \E p \in req.removed : BBoxVolume(p) < req.minVolume

\* C4: create_voronoi_pieces called with fewer than 3 points fails without
\* calling the cell-fracture operator.
C4_FewGeneratorsRejected ==
  (req.kind = "create" /\ Len(req.gens) < 3) =>
    /\ req.capCalls = 0
    /\ req.pieces = <<>>

\* C5: LORE_OT_VoronoiFracture.execute with no retained piece returns
\* CANCELLED, never FINISHED, whatever the reason for the empty list.
C5_NoPiecesCancelled ==
  (req.kind = "voronoi" /\ Len(req.pieces) = 0) => req.outcome = "CANCELLED"

\* the operator produced pieces and every one of them was filtered out
C5_Witness ==
  /\ req.kind = "voronoi"
  /\ req.capCalls = 1
  /\ ~req.raised
  /\ Len(req.produced) > 0
  /\ Len(req.pieces) = 0
  /\ req.outcome = "CANCELLED"

\* C6: run i of a batch samples with seed exactly fracture_seed + i * 1000.
C6_BatchSeeds ==
  \A k \in 1 .. Len(bRuns) :
    bRuns[k].sampleArgs.seed = props.fracture_seed + (k - 1) * SeedStride

\* C7: a batch attempts every one of its variation_count runs: when it
\* returns, run i (i = 0 .. variation_count - 1) has sampled, relaxed and
\* fragmented, with the generators it has whatever the earlier runs did.
C7_AllRunsAttempted ==
  (req.kind = "batch" /\ req.outcome = "FINISHED") =>
    /\ Len(bRuns) = bCount
    /\ \A k \in 1 .. Len(bRuns) :
         /\ bRuns[k].i = k - 1
         /\ bRuns[k].sampled /\ bRuns[k].relaxed /\ bRuns[k].fragmented
         /\ bRuns[k].gens =
              FracturePipeline(0, [props EXCEPT !.fracture_seed =
                                     VariationSeed(props.fracture_seed, k - 1)],
                               objBounds).points

\* a finished batch of two or more runs whose first run retained no piece
C7_Witness ==
  /\ req.kind = "batch"
  /\ req.outcome = "FINISHED"
  /\ bCount >= 2
  /\ Len(bRuns) = bCount
  /\ bRuns[1].nPieces = 0
  /\ bRuns[2].fragmented

\* the values assigned to the properties are not all valid parameters
RawInvalid(raw) ==
  \/ raw.voronoi_cell_count < 3
  \/ raw.minimum_piece_volume <= 0
  \/ raw.fracture_randomness < 0
  \/ raw.fracture_randomness > 10

ProducedNoPieces(r) ==
  r.kind = "voronoi" /\ r.fragmented /\ Len(r.produced) = 0

\* the request fragmented, pieces were produced, and the filter removed all
EveryPieceFiltered(r) ==
  r.kind = "voronoi" /\ r.fragmented /\ Len(r.produced) > 0 /\ Len(r.pieces) = 0

\* what the caller of the operator sees
ReportedResult(r) == <<r.outcome, r.report>>

\* C11: of two consecutive requests, one in which fragmentation produced no
\* piece and one in which every produced piece was filtered out, the reported
\* results differ.
C11_FailuresDistinguished ==
  [][((ProducedNoPieces(req) /\ EveryPieceFiltered(req'))
        \/ (EveryPieceFiltered(req) /\ ProducedNoPieces(req')))
       => ReportedResult(req) # ReportedResult(req')]_vars

\* C12: the number of variations a finished batch reports is at most the
\* number of its runs that retained a piece.
C12_BatchReportCountsSuccesses ==
  (req.kind = "batch" /\ req.outcome = "FINISHED") =>
    req.report.count <= Cardinality({k \in 1 .. Len(bRuns) : bRuns[k].nPieces > 0})

\* the axis along which the bounds are longest, when there is exactly one
HasLongestAxis(bmin, bmax) ==
  \E a \in 1 .. 3 : \A b \in (1 .. 3) \ {a} : bmax[a] - bmin[a] > bmax[b] - bmin[b]

LongestAxis(bmin, bmax) ==
  CHOOSE a \in 1 .. 3 : \A b \in (1 .. 3) \ {a} : bmax[a] - bmin[a] > bmax[b] - bmin[b]

\* how far from the centre line a splinter point can lie across the grain
\* whose axis is a: the radius (0.8 of the smaller half extent across the
\* grain) plus the cross jitter (0.2 of the radius)
CrossReach(bmin, bmax, a) ==
  LET radius == (SetMin({bmax[b] - Center(bmin, bmax)[b] : b \in (1 .. 3) \ {a}}) * 8) \div 10
  IN  radius + (radius * 2) \div 10

\* C16: the splinter points lie along the longest axis of the bounds: across
\* that axis every point is within the cross-section reach of the centre line.
C16_SplinterAlongLongestAxis ==
  (sArgs.pattern = "SPLINTER" /\ HasLongestAxis(sArgs.bounds.min, sArgs.bounds.max)) =>
    \A i \in 1 .. Len(sOuts) : \A k \in 1 .. Len(sOuts[i]) :
      \A b \in (1 .. 3) \ {LongestAxis(sArgs.bounds.min, sArgs.bounds.max)} :
        Abs(sOuts[i][k][b] - Center(sArgs.bounds.min, sArgs.bounds.max)[b])
          <= CrossReach(sArgs.bounds.min, sArgs.bounds.max,
                        LongestAxis(sArgs.bounds.min, sArgs.bounds.max))

\* ceil(count ^ (1/3))
CeilCbrt(count) ==
  CHOOSE k \in 1 .. 9 : k * k * k >= count /\ (k - 1) * (k - 1) * (k - 1) < count

\* C17: the grid points are the first count sites of the lattice with
\* ceil(count ^ (1/3)) cells per axis.
C17_GridResolutionIsCeil ==
  sArgs.pattern = "GRID" =>
    \A i \in 1 .. Len(sOuts) :
      sOuts[i] = GridLoop(SeedRng(0, sArgs.seed), CeilCbrt(sArgs.count), sArgs.count,
                          sArgs.bounds.min, sArgs.bounds.max, sArgs.randomness).points

\* the points iteration t of the latest call ends with
IterationResult(t) == IF t < Len(lTrace) THEN lTrace[t + 1].start ELSE lOut

\* the samples of iteration t that were appended to the region of point k
AssignedTo(t, k) ==
  SelectSeq(lTrace[t].drawn, LAMBDA d : d.drawnFor = k /\ d.appended)

\* the sum over the first n of the samples ds of their coordinate on axis a
RECURSIVE AxisSum(_, _, _)
AxisSum(ds, n, a) == IF n = 0 THEN 0 ELSE AxisSum(ds, n - 1, a) + ds[n].sample[a]

\* C21: in every iteration a point without an assigned sample keeps its
\* position, a point with assigned samples becomes their mean (rounded down
\* on each axis), and a sample is assigned by the positions the iteration
\* started with.
C21_CentroidOrUnmoved ==
  \A t \in 1 .. Len(lTrace) :
    /\ Len(IterationResult(t)) = Len(lTrace[t].start)
    /\ \A n \in 1 .. Len(lTrace[t].drawn) :
         lTrace[t].drawn[n].appended <=>
           ClosestPoint(lTrace[t].start, lTrace[t].drawn[n].sample)
             = lTrace[t].start[lTrace[t].drawn[n].drawnFor]
    /\ \A k \in 1 .. Len(lTrace[t].start) :
         IF Len(AssignedTo(t, k)) = 0
         THEN IterationResult(t)[k] = lTrace[t].start[k]
         ELSE \A a \in 1 .. 3 :
                /\ Len(AssignedTo(t, k)) * IterationResult(t)[k][a]
                     <= AxisSum(AssignedTo(t, k), Len(AssignedTo(t, k)), a)
                /\ AxisSum(AssignedTo(t, k), Len(AssignedTo(t, k)), a)
                     < Len(AssignedTo(t, k)) * (IterationResult(t)[k][a] + 1)

\* a call of two iterations in which one point got no sample and another
\* point moved
C21_Witness ==
  /\ lIterations = 2
  /\ \E t \in 1 .. Len(lTrace) :
       /\ \E k \in 1 .. Len(lTrace[t].start) : Len(AssignedTo(t, k)) = 0
       /\ \E k \in 1 .. Len(lTrace[t].start) :
            Len(AssignedTo(t, k)) > 0 /\ IterationResult(t)[k] # lTrace[t].start[k]

\* the index on the given axis of the lattice cell of the i-th grid point:
\* the loops nest x, y, z from the outside in
CellIndex(i, axis, cells) ==
  CASE axis = 1 -> (i - 1) \div (cells * cells)
    [] axis = 2 -> ((i - 1) \div cells) % cells
    [] axis = 3 -> (i - 1) % cells

\* the lattice spacing of a call on the given axis
Spacing(axis) ==
  (sArgs.bounds.max[axis] - sArgs.bounds.min[axis]) \div GridCellsPerAxis(sArgs.count)

\* the low face on the given axis of the lattice cell of the i-th grid point
CellLow(i, axis) ==
  sArgs.bounds.min[axis] + CellIndex(i, axis, GridCellsPerAxis(sArgs.count)) * Spacing(axis)

\* C22: a grid point is off the centre of its lattice cell by at most half
\* the spacing times randomness on each axis (randomness in tenths), so it is
\* the centre for randomness 0, and it is inside its cell and inside bounds.
C22_GridJitterInsideCell ==
  sArgs.pattern = "GRID" =>
    \A c \in 1 .. Len(sOuts) : \A i \in 1 .. Len(sOuts[c]) : \A a \in 1 .. 3 :
      /\ 20 * Abs(sOuts[c][i][a] - (CellLow(i, a) + Spacing(a) \div 2))
           <= Spacing(a) * sArgs.randomness
      /\ CellLow(i, a) <= sOuts[c][i][a]
      /\ sOuts[c][i][a] <= CellLow(i, a) + Spacing(a)
      /\ sArgs.bounds.min[a] <= sOuts[c][i][a]
      /\ sOuts[c][i][a] <= sArgs.bounds.max[a]

\* a grid call with full randomness that returned a point off the centre of
\* its cell on every axis
C22_Witness ==
  /\ sArgs.pattern = "GRID"
  /\ sArgs.randomness = 10
  /\ \E c \in 1 .. Len(sOuts) : \E i \in 1 .. Len(sOuts[c]) : \A a \in 1 .. 3 :
       sOuts[c][i][a] # CellLow(i, a) + Spacing(a) \div 2

\* how far the coordinate v is outside [lo, hi]
Outside(v, lo, hi) == Max2(0, Max2(lo - v, v - hi))

\* the length of the diagonal of the bounds of a call
Diagonal == VLength(VSub(sArgs.bounds.max, sArgs.bounds.min))

\* C23: on each axis every returned point is at most one diagonal of bounds
\* outside bounds, and a point of the Random pattern is inside bounds.
C23_PointsNearBounds ==
  \A c \in 1 .. Len(sOuts) : \A i \in 1 .. Len(sOuts[c]) : \A a \in 1 .. 3 :
    /\ Outside(sOuts[c][i][a], sArgs.bounds.min[a], sArgs.bounds.max[a]) <= Diagonal
    /\ sArgs.pattern = "RANDOM" =>
         Outside(sOuts[c][i][a], sArgs.bounds.min[a], sArgs.bounds.max[a]) = 0

\* a call of a pattern other than Random that returned a point outside
\* bounds
C23_Witness ==
  /\ sArgs.pattern # "RANDOM"
  /\ \E c \in 1 .. Len(sOuts) : \E i \in 1 .. Len(sOuts[c]) : \E a \in 1 .. 3 :
       Outside(sOuts[c][i][a], sArgs.bounds.min[a], sArgs.bounds.max[a]) > 0

\* C24: a call of create_voronoi_pieces that returns an empty list leaves the
\* visibility of the source object as it was.
C24_EmptyResultNotHidden ==
  [][(req'.kind = "create" /\ req'.fragmented /\ req'.pieces = <<>>)
       => objHidden' = objHidden]_vars

\* C25: between the fracture requests no "FracturePoints" object exists.
C25_NoPointCloudRemains == pointClouds = 0

\* C26: on an object whose fracture_enabled is false no request and no run of
\* a batch calls the sampler, the relaxer or the fragmenter.
C26_DisabledNeverFractured ==
  ~props.fracture_enabled =>
    /\ ~req.sampled /\ ~req.relaxed /\ ~req.fragmented
    /\ \A k \in 1 .. Len(bRuns) :
         ~bRuns[k].sampled /\ ~bRuns[k].relaxed /\ ~bRuns[k].fragmented

\* C27: every crack walk terminates: a walk that has begun reaches the end
\* of its while loop.
C27_WalkTerminates == (cPc = "walk") ~> (cPc = "loop")

\* the point is inside the bounds of the object on every axis
InsideBounds(point) ==
  \A a \in 1 .. 3 : objBounds.min[a] <= point[a] /\ point[a] <= objBounds.max[a]

\* C28: a call returns as many points as it was given, in every iteration a
\* point at index i stays or moves to a position inside bounds, and so every
\* output point that differs from its input is inside bounds and an input
\* inside bounds gives an output inside bounds.
C28_RelaxedStayInBounds ==
  lIterations >= 0 =>
    /\ Len(lOut) = Len(lInput)
    /\ \A t \in 1 .. Len(lTrace) :
         /\ Len(IterationResult(t)) = Len(lInput)
         /\ \A i \in 1 .. Len(lInput) :
              \/ IterationResult(t)[i] = lTrace[t].start[i]
              \/ InsideBounds(IterationResult(t)[i])
    /\ \A i \in 1 .. Len(lInput) : lOut[i] = lInput[i] \/ InsideBounds(lOut[i])
    /\ (\A i \in 1 .. Len(lInput) : InsideBounds(lInput[i]))
         => \A i \in 1 .. Len(lInput) : InsideBounds(lOut[i])

\* a call of two iterations that moved a point which was outside bounds
C28_Witness ==
  /\ lIterations = 2
  /\ \E i \in 1 .. Len(lInput) : ~InsideBounds(lInput[i]) /\ lOut[i] # lInput[i]

\* What a Voronoi fracture request executes up to fragmentation on an object
\* that has the properties of this one with value assigned to fracture_seed:
\* the arguments of the sampler and the generators handed to fragmentation.
DirectRequest(value) ==
  FracturePipeline(rng, StoredProps([props EXCEPT !.fracture_seed = value]), objBounds)

RECURSIVE InteriorFactors(_, _, _)
InteriorFactors(path, v, i) ==
  IF i >= Len(path) - 1 THEN 0
  ELSE (IF path[i + 1] = v THEN DepthFactor(i, Len(path)) ELSE 0)
         + InteriorFactors(path, v, i + 1)

====
